---- MODULE Spec2Model ----
(***************************************************************************)
(* Model of the dual-cluster OpenSearch engine of open-search-dev:         *)
(* search/document.go (document key and metadata stamping) and             *)
(* search/opensearch/open_search.go (the replicated engine and its         *)
(* consistency check), behind the logging middleware NewOpenSearch wraps    *)
(* it in.                                                                  *)
(*                                                                         *)
(* Strings that the code concatenates (identifiers, document keys) are     *)
(* sequences of one-character strings, so that fmt.Sprintf is a real       *)
(* concatenation.  Go values held in a Document are records [kind, v];     *)
(* the JSON text stored by a cluster is a record with a JSON kind, so that *)
(* json.Marshal and the json.Decoder are conversions, not the identity.    *)
(***************************************************************************)
EXTENDS Integers, Sequences, FiniteSets, TLC

VARIABLES
    secondaryClient,  \* TRUE iff OpenSearch.secondaryClient is non-nil
    cluster,          \* cluster[role]: the indices and documents a backend holds
    call,             \* the public operation in progress (or the last one ended)
    pre,              \* history: cluster as it was when the operation began
    mw,               \* the logging middleware's method serving the caller
    parked,           \* call, pre and mw of the goroutines that are not running
    keyArgs,          \* input of the key derivation under study (SpecKey)
    keyOut            \* its result (SpecKey)

vars == <<secondaryClient, cluster, call, pre, mw, parked, keyArgs, keyOut>>

-----------------------------------------------------------------------------
(* Bounds and input sets                                                   *)

\* longest identifier string drawn for the key derivation (SpecKey)
MaxIdLen == 3

Alphabet == {"a", "-"}

RECURSIVE StringsOfLen(_)
StringsOfLen(n) ==
    IF n = 0 THEN {<<>>}
    ELSE {s \o <<c>> : s \in StringsOfLen(n - 1), c \in Alphabet}

\* every string over Alphabet of length 0..n
StringsUpTo(n) == UNION {StringsOfLen(k) : k \in 0..n}

Empty == <<>>
IdA == <<"a">>
IdAA == <<"a", "-", "a">>

\* identifier triples (instanceID, entityName, entityID) the callers pass
\* (two tenants, "a" and "a-a", one entity each)
NonEmptyTriples == {<<IdA, IdAA, IdA>>, <<IdAA, IdA, IdA>>}
EmptyTriples ==
    {<<Empty, IdA, IdA>>, <<IdA, Empty, IdA>>, <<IdA, IdA, Empty>>,
     <<Empty, Empty, Empty>>}
Triples == NonEmptyTriples \cup EmptyTriples

IndexNames == {"ix"}

\* the tenants that search, and the query strings they send: a word and the
\* match-all pattern
SearchInstanceIDs == {IdA, IdAA}
Queries == {<<"A">>, <<"*">>}

Roles == {"primary", "secondary"}

-----------------------------------------------------------------------------
(* Values                                                                  *)

GoString(s) == [kind |-> "string", v |-> s]
GoInt(s) == [kind |-> "int", v |-> s]
GoFloat64(s) == [kind |-> "float64", v |-> s]
GoTime(s) == [kind |-> "time", v |-> s]
GoSlice(s) == [kind |-> "slice", v |-> s]
GoNaN == [kind |-> "nan", v |-> <<"N">>]

EmptyDoc == [k \in {} |-> GoString(Empty)]

MetaKeys == {"id", "instance_id", "entity_name"}

\* the documents callers pass to PutDocument
Doc1 == [name |-> GoString(<<"A">>)]
Doc2 == [id |-> GoString(<<"z">>), name |-> GoString(<<"B">>)]
Doc3 == [n |-> GoInt(<<"1">>), at |-> GoTime(<<"T">>)]
Doc4 == [tags |-> GoSlice(<<"x">>)]
Doc5 == [tags |-> GoSlice(<<"y">>)]
Doc6 == [score |-> GoNaN]
Documents == {Doc1, Doc2, Doc3, Doc4, Doc5, Doc6}

-----------------------------------------------------------------------------
(* search/document.go                                                      *)

Sep == <<"-">>

\* mutant: the three parts are joined without the separator
GenerateDocumentIDNoSeparator(instanceID, entityName, entityID) ==
    instanceID \o entityName \o entityID

\* fmt.Sprintf("%s-%s-%s", instanceID, entityName, entityID)
GenerateDocumentID(instanceID, entityName, entityID) ==
    instanceID \o Sep \o entityName \o Sep \o entityID

NoErr == [role |-> "", kind |-> "nil", field |-> ""]
Err(role, kind) == [role |-> role, kind |-> kind, field |-> ""]
MissingField(field) == [role |-> "", kind |-> "MissingField", field |-> field]

\* mutant: the entityName check is missing
MetaDataErrorNoEntityName(instanceID, entityName, entityID) ==
    IF entityID = Empty THEN MissingField("entityID")
    ELSE IF instanceID = Empty THEN MissingField("instanceID")
    ELSE NoErr

\* the error AddDocumentMetaData returns: the checks run in this order
MetaDataError(instanceID, entityName, entityID) ==
    IF entityID = Empty THEN MissingField("entityID")
    ELSE IF instanceID = Empty THEN MissingField("instanceID")
    ELSE IF entityName = Empty THEN MissingField("entityName")
    ELSE NoErr

\* mutant: a value the caller stored at a metadata key is kept
StampedDocumentKeepingCallers(d, instanceID, entityName, entityID) ==
    [k \in DOMAIN d \cup MetaKeys |->
        IF k \in DOMAIN d THEN d[k]
        ELSE IF k = "id" THEN GoString(entityID)
        ELSE IF k = "instance_id" THEN GoString(instanceID)
        ELSE GoString(entityName)]

\* the three assignments d["id"] = ..., d["instance_id"] = ..., d["entity_name"] = ...
StampedDocument(d, instanceID, entityName, entityID) ==
    [k \in DOMAIN d \cup MetaKeys |->
        IF k = "id" THEN GoString(entityID)
        ELSE IF k = "instance_id" THEN GoString(instanceID)
        ELSE IF k = "entity_name" THEN GoString(entityName)
        ELSE d[k]]

\* AddDocumentMetaData: d is a map, so the assignments act on the caller's
\* document; doc is the caller's document after the call.
AddDocumentMetaData(d, instanceID, entityName, entityID) ==
    LET e == MetaDataError(instanceID, entityName, entityID) IN
    [err |-> e,
     doc |-> IF e = NoErr THEN StampedDocument(d, instanceID, entityName, entityID)
             ELSE d]

-----------------------------------------------------------------------------
(* encoding/json as PutDocument and findDocument use it                    *)

\* json.Marshal of one value: an int and a float64 of the same value give the
\* same number text, a time.Time gives a string (RFC 3339)
MarshalValue(x) ==
    CASE x.kind = "string" -> [kind |-> "JSONString", v |-> x.v]
      [] x.kind = "int" -> [kind |-> "JSONNumber", v |-> x.v]
      [] x.kind = "float64" -> [kind |-> "JSONNumber", v |-> x.v]
      [] x.kind = "bool" -> [kind |-> "JSONBool", v |-> x.v]
      [] x.kind = "time" -> [kind |-> "JSONString", v |-> x.v]
      [] x.kind = "slice" -> [kind |-> "JSONArray", v |-> x.v]
      [] x.kind = "map" -> [kind |-> "JSONObject", v |-> x.v]
      [] OTHER -> [kind |-> "JSONNull", v |-> Empty]

\* json.Marshal rejects a NaN float (UnsupportedValueError)
Marshalable(d) == \A k \in DOMAIN d : d[k].kind # "nan"

\* json.Marshal(d): the body both clusters are sent
Marshal(d) == [k \in DOMAIN d |-> MarshalValue(d[k])]

\* json.Decoder into interface{}: every number is a float64, an array a
\* []interface{}, an object a map[string]interface{}
DecodeValue(j) ==
    CASE j.kind = "JSONString" -> [kind |-> "string", v |-> j.v]
      [] j.kind = "JSONNumber" -> [kind |-> "float64", v |-> j.v]
      [] j.kind = "JSONBool" -> [kind |-> "bool", v |-> j.v]
      [] j.kind = "JSONArray" -> [kind |-> "slice", v |-> j.v]
      [] j.kind = "JSONObject" -> [kind |-> "map", v |-> j.v]
      [] OTHER -> [kind |-> "nil", v |-> Empty]

\* decodeResponse of a 200 GET response: the _source of the stored body
Decode(body) == [k \in DOMAIN body |-> DecodeValue(body[k])]

-----------------------------------------------------------------------------
(* compareDocuments                                                        *)

\* Go's == on two interface values: values of different dynamic types are
\* unequal; two slices or two maps make the comparison panic
Uncomparable(x) == x.kind \in {"slice", "map"}

\* what the loop body does at key k: "next" goes on to another key
CompareAtKey(doc1, doc2, k) ==
    IF k \notin DOMAIN doc2 THEN "false"
    ELSE IF doc1[k].kind = doc2[k].kind /\ Uncomparable(doc1[k]) THEN "panic"
    ELSE IF doc1[k] # doc2[k] THEN "false"
    ELSE "next"

\* compareDocuments ranges over doc1 in the map's iteration order, which Go
\* leaves unspecified: any key that ends the loop may be the first one met
CompareOutcomes(doc1, doc2) ==
    IF Cardinality(DOMAIN doc1) # Cardinality(DOMAIN doc2) THEN {"false"}
    ELSE LET ending == {k \in DOMAIN doc1 : CompareAtKey(doc1, doc2, k) # "next"} IN
         IF ending = {} THEN {"true"}
         ELSE {CompareAtKey(doc1, doc2, k) : k \in ending}

-----------------------------------------------------------------------------
(* The clusters, as the engine's requests see them                         *)

\* a backend call answers normally, or req.Do returns an error, or the cluster
\* answers with a status that is neither 2xx nor 404
Faults == {"none", "transport", "status"}

NoCluster == [indices |-> {}, docs |-> [k \in {} |-> EmptyDoc]]

HasDocument(cl, indexName, documentID) == <<indexName, documentID>> \in DOMAIN cl.docs

\* opensearchapi.Response.IsError
IsError(status) == status > 299

\* the status a request ends with: 0 stands for "no response" (transport error)
Status(fault, normal) ==
    IF fault = "transport" THEN 0 ELSE IF fault = "status" THEN 500 ELSE normal

\* executeRequest: an error iff req.Do failed or the response is an error
ExecuteRequestFails(status) == status = 0 \/ IsError(status)

\* IndexRequest: stores the body under the document id, replacing what was
\* there (the cluster creates a missing index on the first write)
IndexRequestStatus(cl, indexName, documentID) ==
    IF HasDocument(cl, indexName, documentID) THEN 200 ELSE 201

IndexRequestEffect(cl, indexName, documentID, body) ==
    [indices |-> cl.indices \cup {indexName},
     docs |-> [k \in DOMAIN cl.docs \cup {<<indexName, documentID>>} |->
                 IF k = <<indexName, documentID>> THEN body ELSE cl.docs[k]]]

\* GetRequest
GetRequestStatus(cl, indexName, documentID) ==
    IF HasDocument(cl, indexName, documentID) THEN 200 ELSE 404

\* DeleteRequest: 404 when there is nothing to delete
DeleteRequestStatus(cl, indexName, documentID) ==
    IF HasDocument(cl, indexName, documentID) THEN 200 ELSE 404

DeleteRequestEffect(cl, indexName, documentID) ==
    [cl EXCEPT !.docs =
        [k \in DOMAIN cl.docs \ {<<indexName, documentID>>} |-> cl.docs[k]]]

\* IndicesExistsRequest
IndicesExistsStatus(cl, indexName) ==
    IF indexName \in cl.indices THEN 200 ELSE 404

\* IndicesCreateRequest: 400 when the index already exists
IndicesCreateStatus(cl, indexName) ==
    IF indexName \in cl.indices THEN 400 ELSE 200

IndicesCreateEffect(cl, indexName) ==
    [cl EXCEPT !.indices = cl.indices \cup {indexName}]

\* IndicesDeleteRequest: removes the index and every document in it
IndicesDeleteStatus(cl, indexName) ==
    IF indexName \in cl.indices THEN 200 ELSE 404

IndicesDeleteEffect(cl, indexName) ==
    [indices |-> cl.indices \ {indexName},
     docs |-> [k \in {x \in DOMAIN cl.docs : x[1] # indexName} |-> cl.docs[k]]]

\* SearchRequest with no index: the search runs over every document of the
\* cluster.  query_string matches a document holding the word as a string
\* value, "*" matches every document; the term filter compares the whole
\* value of the field (instance_id is a keyword field, main.go:55).
QueryStringMatches(word, body) ==
    \/ word = <<"*">>
    \/ \E k \in DOMAIN body : body[k] = [kind |-> "JSONString", v |-> word]

TermMatches(term, body) ==
    /\ term.field \in DOMAIN body
    /\ body[term.field] = [kind |-> "JSONString", v |-> term.value]

\* the bool query: must and filter both hold
SearchRequestMatches(cl, q) ==
    {k \in DOMAIN cl.docs :
        QueryStringMatches(q.must, cl.docs[k]) /\ TermMatches(q.filter, cl.docs[k])}

\* the hits of a response: the _source of every match, in the backend's order
Orderings(S) ==
    {f \in [1..Cardinality(S) -> S] :
        \A i, j \in 1..Cardinality(S) : f[i] = f[j] => i = j}

SearchRequestHits(cl, q) ==
    {[i \in 1..Len(f) |-> cl.docs[f[i]]] : f \in Orderings(SearchRequestMatches(cl, q))}

-----------------------------------------------------------------------------
(* The call in progress                                                    *)

NoQuery == [must |-> Empty, filter |-> [field |-> "", value |-> Empty]]

NoPrev == [ok |-> FALSE, instanceID |-> Empty, indexName |-> "",
           entityName |-> Empty, entityID |-> Empty, given |-> EmptyDoc]

IdleCall ==
    [op |-> "", pc |-> "idle",
     instanceID |-> Empty, indexName |-> "", entityName |-> Empty,
     entityID |-> Empty,
     document |-> EmptyDoc,    \* the caller's document (a map: shared with the callee)
     given |-> EmptyDoc,       \* history: the caller's document as passed
     docByte |-> EmptyDoc, documentID |-> Empty,
     pryDoc |-> EmptyDoc,
     result |-> EmptyDoc, returned |-> FALSE,  \* the Document returned, if not nil
     query |-> NoQuery,        \* the body of the SearchRequest
     documents |-> <<>>,       \* the []Document returned, if not nil
     err |-> NoErr,
     log |-> <<>>,             \* history: the backend requests issued, in order
     prev |-> NoPrev,          \* history: the PutDocument that returned nil just before
     retry |-> FALSE]          \* history: repeats the delete that just ended in a
                               \* secondary-tagged error

Ready == call.pc \in {"idle", "done", "panic"}

NewCall(op, instanceID, indexName, entityName, entityID) ==
    [IdleCall EXCEPT !.op = op, !.instanceID = instanceID, !.indexName = indexName,
                     !.entityName = entityName, !.entityID = entityID]

Request(role, req, status) == [role |-> role, req |-> req, status |-> status]

\* return err (and a nil Document)
Return(c, e) == [c EXCEPT !.pc = "done", !.err = e]

\* return doc, nil
ReturnDocument(c, doc) ==
    [c EXCEPT !.pc = "done", !.err = NoErr, !.result = doc, !.returned = TRUE]

\* return documents, nil
ReturnDocuments(c, docs) ==
    [c EXCEPT !.pc = "done", !.err = NoErr, !.documents = docs, !.returned = TRUE]

\* the call that just returned was op on these arguments and failed on the
\* secondary
SecondaryJustFailed(op, instanceID, indexName, entityName, entityID) ==
    /\ call.op = op /\ call.pc = "done"
    /\ call.err = Err("secondary", "Backend")
    /\ call.instanceID = instanceID /\ call.indexName = indexName
    /\ call.entityName = entityName /\ call.entityID = entityID

\* the middleware's method at work: its name, the arguments its caller
\* passed and, once it has returned, what it returned
NoArgs ==
    [instanceID |-> Empty, indexName |-> "", entityName |-> Empty,
     entityID |-> Empty, document |-> EmptyDoc, query |-> Empty]

IdleFrame ==
    [method |-> "", pc |-> "idle", args |-> NoArgs,
     err |-> NoErr, result |-> EmptyDoc, documents |-> <<>>, returned |-> FALSE]

\* the method is entered and calls mw.next
Invoke(method, args) == [IdleFrame EXCEPT !.method = method, !.pc = "next", !.args = args]

\* mutant: the middleware logs the error and returns nil in its place
MiddlewareReturnSwallowed(m, c) ==
    IF c.pc = "done"
    THEN [m EXCEPT !.pc = "returned", !.err = NoErr, !.result = c.result,
                   !.documents = c.documents, !.returned = c.returned]
    ELSE IF c.pc = "panic" THEN [m EXCEPT !.pc = "panic"]
    ELSE m

\* return mw.next.<Method>(...): once the engine's call c has ended, its
\* results are the method's results (a panic passes through the deferred log)
MiddlewareReturn(m, c) ==
    IF c.pc = "done"
    THEN [m EXCEPT !.pc = "returned", !.err = c.err, !.result = c.result,
                   !.documents = c.documents, !.returned = c.returned]
    ELSE IF c.pc = "panic" THEN [m EXCEPT !.pc = "panic"]
    ELSE m

Fixed == UNCHANGED <<secondaryClient, parked, keyArgs, keyOut>>

\* a step inside the engine: the middleware's method returns when it ends the call
Unused ==
    /\ Fixed
    /\ mw' = MiddlewareReturn(mw, call')

-----------------------------------------------------------------------------
(* PutDocument                                                             *)

\* lines 115-135: stamp the metadata, marshal, derive the key
PutDocument(instanceID, indexName, entityName, entityID, document) ==
    /\ Ready
    /\ LET c == [NewCall("PutDocument", instanceID, indexName, entityName, entityID)
                    EXCEPT !.given = document]
           m == AddDocumentMetaData(document, instanceID, entityName, entityID)
           d == [c EXCEPT !.document = m.doc]
       IN  call' =
             IF m.err # NoErr THEN Return(d, m.err)
             ELSE IF ~Marshalable(m.doc) THEN Return(d, Err("", "Marshal"))
             ELSE [d EXCEPT !.pc = "putPrimary",
                            !.docByte = Marshal(m.doc),
                            !.documentID =
                                GenerateDocumentID(instanceID, entityName, entityID)]
    /\ pre' = cluster
    /\ UNCHANGED cluster
    /\ Fixed

\* mutant: the error of the primary write is not returned before the
\* secondary write
AfterPrimaryPutNoAbort(c, failed) ==
    IF secondaryClient THEN [c EXCEPT !.pc = "putSecondary"]
    ELSE IF failed THEN Return(c, Err("primary", "Backend"))
    ELSE Return(c, NoErr)

\* mutant: the secondary write is left out
AfterPrimaryPutPrimaryOnly(c, failed) ==
    IF failed THEN Return(c, Err("primary", "Backend")) ELSE Return(c, NoErr)

\* lines 138-143 and 149: what follows the primary write
AfterPrimaryPut(c, failed) ==
    IF failed THEN Return(c, Err("primary", "Backend"))
    ELSE IF secondaryClient THEN [c EXCEPT !.pc = "putSecondary"]
    ELSE Return(c, NoErr)

\* mutant: the error of the secondary write is dropped
AfterSecondaryPutSwallowed(c, failed) == Return(c, NoErr)

\* mutant: a failed secondary write is sent once more
AfterSecondaryPutRetried(c, failed) ==
    IF failed /\ Len(c.log) < 3 THEN [c EXCEPT !.pc = "putSecondary"]
    ELSE IF failed THEN Return(c, Err("secondary", "Backend"))
    ELSE Return(c, NoErr)

\* lines 144-149: what follows the secondary write
AfterSecondaryPut(c, failed) ==
    IF failed THEN Return(c, Err("secondary", "Backend")) ELSE Return(c, NoErr)

\* putDocument against one cluster: the request is sent, and takes effect
\* unless it fails
PutOn(role) ==
    \E fault \in Faults :
        LET cl == cluster[role]
            status == Status(fault,
                          IndexRequestStatus(cl, call.indexName, call.documentID))
            c == [call EXCEPT !.log = Append(@, Request(role, "IndexRequest", status))]
        IN  /\ call' = IF role = "primary"
                       THEN AfterPrimaryPut(c, ExecuteRequestFails(status))
                       ELSE AfterSecondaryPut(c, ExecuteRequestFails(status))
            /\ cluster' =
                 IF ExecuteRequestFails(status) THEN cluster
                 ELSE [cluster EXCEPT ![role] =
                          IndexRequestEffect(cl, call.indexName, call.documentID,
                                             call.docByte)]

PutPrimary ==
    /\ call.pc = "putPrimary"
    /\ PutOn("primary")
    /\ UNCHANGED pre
    /\ Unused

PutSecondary ==
    /\ call.pc = "putSecondary"
    /\ PutOn("secondary")
    /\ UNCHANGED pre
    /\ Unused

-----------------------------------------------------------------------------
(* FindDocument                                                            *)

\* mutant: a 404 is decoded like a 200 (its body has no _source)
decodeResponseNo404(status, body) ==
    IF IsError(status) /\ status # 404
    THEN [err |-> "Backend", doc |-> EmptyDoc]
    ELSE [err |-> "nil", doc |-> Decode(body)]

\* mutant: the target's JSON tag does not name _source, so Source stays nil
decodeResponseWrongTag(status, body) ==
    IF IsError(status)
    THEN [err |-> IF status = 404 THEN "DocumentNotFound" ELSE "Backend",
          doc |-> EmptyDoc]
    ELSE [err |-> "nil", doc |-> EmptyDoc]

\* decodeResponse into struct{ Source search.Document `json:"_source"` }
decodeResponse(status, body) ==
    IF IsError(status)
    THEN [err |-> IF status = 404 THEN "DocumentNotFound" ELSE "Backend",
          doc |-> EmptyDoc]
    ELSE [err |-> "nil", doc |-> Decode(body)]

\* findDocument against one cluster: executeReadRequest fails only when req.Do
\* does; every response, whatever its status, goes to decodeResponse
findDocument(cl, fault, indexName, documentID) ==
    IF fault = "transport" THEN [err |-> "Backend", doc |-> EmptyDoc]
    ELSE LET status == Status(fault, GetRequestStatus(cl, indexName, documentID)) IN
         decodeResponse(status,
             IF HasDocument(cl, indexName, documentID)
             THEN cl.docs[<<indexName, documentID>>] ELSE EmptyDoc)

\* line 156
FindDocument(instanceID, indexName, entityName, entityID) ==
    /\ Ready
    /\ call' = [NewCall("FindDocument", instanceID, indexName, entityName, entityID)
                  EXCEPT !.pc = "findPrimary",
                         !.documentID =
                             GenerateDocumentID(instanceID, entityName, entityID),
                         !.prev =
                             IF call.op = "PutDocument" /\ call.pc = "done"
                                /\ call.err = NoErr
                             THEN [ok |-> TRUE, instanceID |-> call.instanceID,
                                   indexName |-> call.indexName,
                                   entityName |-> call.entityName,
                                   entityID |-> call.entityID, given |-> call.given]
                             ELSE NoPrev]
    /\ pre' = cluster
    /\ UNCHANGED cluster
    /\ Fixed

\* lines 158-163 and 174
FindPrimary ==
    /\ call.pc = "findPrimary"
    /\ \E fault \in Faults :
        LET cl == cluster["primary"]
            r == findDocument(cl, fault, call.indexName, call.documentID)
            c == [call EXCEPT !.log = Append(@, Request("primary", "GetRequest",
                      Status(fault,
                             GetRequestStatus(cl, call.indexName, call.documentID))))]
        IN  call' =
              IF r.err # "nil" THEN Return(c, Err("primary", r.err))
              ELSE IF secondaryClient
                   THEN [c EXCEPT !.pc = "findSecondary", !.pryDoc = r.doc]
                   ELSE ReturnDocument([c EXCEPT !.pryDoc = r.doc], r.doc)
    /\ UNCHANGED <<cluster, pre>>
    /\ Unused

\* mutant: a detected mismatch is repaired from the primary
FindSecondaryRepairing ==
    /\ call.pc = "findSecondary"
    /\ \E fault \in Faults :
        LET cl == cluster["secondary"]
            r == findDocument(cl, fault, call.indexName, call.documentID)
            c == [call EXCEPT !.log = Append(@, Request("secondary", "GetRequest",
                      Status(fault,
                             GetRequestStatus(cl, call.indexName, call.documentID))))]
        IN  IF r.err # "nil"
            THEN /\ call' = Return(c, Err("secondary", r.err))
                 /\ UNCHANGED cluster
            ELSE \E outcome \in CompareOutcomes(call.pryDoc, r.doc) :
                   /\ call' = CASE outcome = "true" -> ReturnDocument(c, call.pryDoc)
                               [] outcome = "false" -> Return(c, Err("", "DocumentMismatch"))
                               [] OTHER -> [c EXCEPT !.pc = "panic"]
                   /\ cluster' = IF outcome = "false"
                                 THEN [cluster EXCEPT !["secondary"] = cluster["primary"]]
                                 ELSE cluster
    /\ UNCHANGED pre
    /\ Unused

\* lines 164-174; a panic of compareDocuments ends the call without a return
FindSecondary ==
    /\ call.pc = "findSecondary"
    /\ \E fault \in Faults :
        LET cl == cluster["secondary"]
            r == findDocument(cl, fault, call.indexName, call.documentID)
            c == [call EXCEPT !.log = Append(@, Request("secondary", "GetRequest",
                      Status(fault,
                             GetRequestStatus(cl, call.indexName, call.documentID))))]
        IN  IF r.err # "nil" THEN call' = Return(c, Err("secondary", r.err))
            ELSE \E outcome \in CompareOutcomes(call.pryDoc, r.doc) :
                   call' = CASE outcome = "true" -> ReturnDocument(c, call.pryDoc)
                             [] outcome = "false" -> Return(c, Err("", "DocumentMismatch"))
                             [] OTHER -> [c EXCEPT !.pc = "panic"]
    /\ UNCHANGED <<cluster, pre>>
    /\ Unused

-----------------------------------------------------------------------------
(* DeleteDocument and DeleteIndex                                          *)

\* line 180
DeleteDocument(instanceID, indexName, entityName, entityID) ==
    /\ Ready
    /\ call' = [NewCall("DeleteDocument", instanceID, indexName, entityName, entityID)
                  EXCEPT !.pc = "deletePrimary",
                         !.retry = SecondaryJustFailed("DeleteDocument", instanceID,
                                       indexName, entityName, entityID),
                         !.documentID =
                             GenerateDocumentID(instanceID, entityName, entityID)]
    /\ pre' = cluster
    /\ UNCHANGED cluster
    /\ Fixed

\* mutant: the error of the primary's delete is dropped and the fan-out goes on
DeleteOnPastFailure(role) ==
    \E fault \in Faults :
        LET cl == cluster[role]
            status == Status(fault,
                          DeleteRequestStatus(cl, call.indexName, call.documentID))
            c == [call EXCEPT !.log = Append(@, Request(role, "DeleteRequest", status))]
        IN  /\ cluster' = IF ExecuteRequestFails(status) THEN cluster
                           ELSE [cluster EXCEPT ![role] =
                                   DeleteRequestEffect(cl, call.indexName, call.documentID)]
            /\ call' = IF role = "primary" /\ secondaryClient
                        THEN [c EXCEPT !.pc = "deleteSecondary"]
                        ELSE IF ExecuteRequestFails(status)
                             THEN Return(c, Err(role, "Backend"))
                             ELSE Return(c, NoErr)

\* deleteDocument against one cluster, then the fan-out of lines 182-192
DeleteOn(role) ==
    \E fault \in Faults :
        LET cl == cluster[role]
            status == Status(fault,
                          DeleteRequestStatus(cl, call.indexName, call.documentID))
            c == [call EXCEPT !.log = Append(@, Request(role, "DeleteRequest", status))]
        IN  IF ExecuteRequestFails(status)
            THEN /\ call' = Return(c, Err(role, "Backend"))
                 /\ UNCHANGED cluster
            ELSE /\ cluster' = [cluster EXCEPT ![role] =
                        DeleteRequestEffect(cl, call.indexName, call.documentID)]
                 /\ call' = IF role = "primary" /\ secondaryClient
                            THEN [c EXCEPT !.pc = "deleteSecondary"]
                            ELSE Return(c, NoErr)

DeletePrimary ==
    /\ call.pc = "deletePrimary"
    /\ DeleteOn("primary")
    /\ UNCHANGED pre
    /\ Unused

DeleteSecondary ==
    /\ call.pc = "deleteSecondary"
    /\ DeleteOn("secondary")
    /\ UNCHANGED pre
    /\ Unused

DeleteIndex(indexName) ==
    /\ Ready
    /\ call' = [NewCall("DeleteIndex", Empty, indexName, Empty, Empty)
                  EXCEPT !.pc = "deleteIndexPrimary",
                         !.retry = SecondaryJustFailed("DeleteIndex", Empty,
                                       indexName, Empty, Empty)]
    /\ pre' = cluster
    /\ UNCHANGED cluster
    /\ Fixed

\* mutant: the error of the secondary's index delete is dropped
DeleteIndexOnSwallowed(role) ==
    \E fault \in Faults :
        LET cl == cluster[role]
            status == Status(fault, IndicesDeleteStatus(cl, call.indexName))
            c == [call EXCEPT !.log =
                      Append(@, Request(role, "IndicesDeleteRequest", status))]
        IN  IF ExecuteRequestFails(status)
            THEN /\ call' = IF role = "primary" THEN Return(c, Err(role, "Backend"))
                            ELSE Return(c, NoErr)
                 /\ UNCHANGED cluster
            ELSE /\ cluster' = [cluster EXCEPT ![role] =
                        IndicesDeleteEffect(cl, call.indexName)]
                 /\ call' = IF role = "primary" /\ secondaryClient
                            THEN [c EXCEPT !.pc = "deleteIndexSecondary"]
                            ELSE Return(c, NoErr)

\* deleteIndex against one cluster, then the fan-out of lines 197-207
DeleteIndexOn(role) ==
    \E fault \in Faults :
        LET cl == cluster[role]
            status == Status(fault, IndicesDeleteStatus(cl, call.indexName))
            c == [call EXCEPT !.log =
                      Append(@, Request(role, "IndicesDeleteRequest", status))]
        IN  IF ExecuteRequestFails(status)
            THEN /\ call' = Return(c, Err(role, "Backend"))
                 /\ UNCHANGED cluster
            ELSE /\ cluster' = [cluster EXCEPT ![role] =
                        IndicesDeleteEffect(cl, call.indexName)]
                 /\ call' = IF role = "primary" /\ secondaryClient
                            THEN [c EXCEPT !.pc = "deleteIndexSecondary"]
                            ELSE Return(c, NoErr)

DeleteIndexPrimary ==
    /\ call.pc = "deleteIndexPrimary"
    /\ DeleteIndexOn("primary")
    /\ UNCHANGED pre
    /\ Unused

DeleteIndexSecondary ==
    /\ call.pc = "deleteIndexSecondary"
    /\ DeleteIndexOn("secondary")
    /\ UNCHANGED pre
    /\ Unused

-----------------------------------------------------------------------------
(* CreateIndex                                                             *)

\* lines 93-96: the index configuration always marshals
CreateIndex(indexName) ==
    /\ Ready
    /\ call' = [NewCall("CreateIndex", Empty, indexName, Empty, Empty)
                  EXCEPT !.pc = "existsPrimary"]
    /\ pre' = cluster
    /\ UNCHANGED cluster
    /\ Fixed

\* mutant: CreateIndex returns after the primary's ensureIndex
AfterEnsurePrimaryOnly(c, role) == Return(c, NoErr)

\* where CreateIndex goes once ensureIndex has returned nil for role
AfterEnsure(c, role) ==
    IF role = "primary" /\ secondaryClient
    THEN [c EXCEPT !.pc = "existsSecondary"]
    ELSE Return(c, NoErr)

\* mutant: ensureIndex drops the error of indexExists and carries on
IndexExistsOnIgnoringError(role) ==
    \E fault \in Faults :
        LET status == Status(fault, IndicesExistsStatus(cluster[role], call.indexName))
            c == [call EXCEPT !.log =
                      Append(@, Request(role, "IndicesExistsRequest", status))]
        IN  call' =
              IF status = 404
              THEN [c EXCEPT !.pc = IF role = "primary" THEN "createPrimary"
                                    ELSE "createSecondary"]
              ELSE AfterEnsure(c, role)

\* mutant: ensureIndex creates the index whether or not it exists
IndexExistsOnAlwaysCreate(role) ==
    \E fault \in Faults :
        LET status == Status(fault, IndicesExistsStatus(cluster[role], call.indexName))
            c == [call EXCEPT !.log =
                      Append(@, Request(role, "IndicesExistsRequest", status))]
        IN  call' =
              IF fault = "transport" THEN Return(c, Err(role, "Backend"))
              ELSE IF status \in {200, 404}
                   THEN [c EXCEPT !.pc = IF role = "primary" THEN "createPrimary"
                                         ELSE "createSecondary"]
                   ELSE Return(c, Err(role, "Backend"))

\* indexExists within ensureIndex: 200 is true, 404 is false, the rest an error
IndexExistsOn(role) ==
    \E fault \in Faults :
        LET status == Status(fault, IndicesExistsStatus(cluster[role], call.indexName))
            c == [call EXCEPT !.log =
                      Append(@, Request(role, "IndicesExistsRequest", status))]
        IN  call' =
              IF fault = "transport" THEN Return(c, Err(role, "Backend"))
              ELSE IF status = 200 THEN AfterEnsure(c, role)
              ELSE IF status = 404
                   THEN [c EXCEPT !.pc = IF role = "primary" THEN "createPrimary"
                                         ELSE "createSecondary"]
                   ELSE Return(c, Err(role, "Backend"))

\* createIndex within ensureIndex
CreateIndexOn(role) ==
    \E fault \in Faults :
        LET cl == cluster[role]
            status == Status(fault, IndicesCreateStatus(cl, call.indexName))
            c == [call EXCEPT !.log =
                      Append(@, Request(role, "IndicesCreateRequest", status))]
        IN  IF ExecuteRequestFails(status)
            THEN /\ call' = Return(c, Err(role, "Backend"))
                 /\ UNCHANGED cluster
            ELSE /\ cluster' = [cluster EXCEPT ![role] =
                        IndicesCreateEffect(cl, call.indexName)]
                 /\ call' = AfterEnsure(c, role)

ExistsPrimary ==
    /\ call.pc = "existsPrimary"
    /\ IndexExistsOn("primary")
    /\ UNCHANGED <<cluster, pre>>
    /\ Unused

CreatePrimary ==
    /\ call.pc = "createPrimary"
    /\ CreateIndexOn("primary")
    /\ UNCHANGED pre
    /\ Unused

ExistsSecondary ==
    /\ call.pc = "existsSecondary"
    /\ IndexExistsOn("secondary")
    /\ UNCHANGED <<cluster, pre>>
    /\ Unused

CreateSecondary ==
    /\ call.pc = "createSecondary"
    /\ CreateIndexOn("secondary")
    /\ UNCHANGED pre
    /\ Unused

-----------------------------------------------------------------------------
(* Search                                                                  *)

\* mutant: the filter is put on the id field
constructSearchQueryFilterOnID(instanceID, query) ==
    [must |-> query, filter |-> [field |-> "id", value |-> instanceID]]

\* query_string on query.Value, filtered by the term instance_id = instanceID
constructSearchQuery(instanceID, query) ==
    [must |-> query, filter |-> [field |-> "instance_id", value |-> instanceID]]

\* lines 214-224: build the query (a map of strings always marshals)
Search(instanceID, query) ==
    /\ Ready
    /\ call' = [NewCall("Search", instanceID, "", Empty, Empty)
                  EXCEPT !.pc = "searchPrimary",
                         !.query = constructSearchQuery(instanceID, query)]
    /\ pre' = cluster
    /\ UNCHANGED cluster
    /\ Fixed

\* mutant: a response without hits is reported as ErrDocumentNotFound
extractDocumentsFromSearchResponseNoneIsError(status, hits) ==
    LET r == decodeResponse(status, EmptyDoc) IN
    IF r.err # "nil" THEN [err |-> r.err, documents |-> <<>>]
    ELSE IF hits = <<>> THEN [err |-> "DocumentNotFound", documents |-> <<>>]
    ELSE [err |-> "nil", documents |-> [i \in 1..Len(hits) |-> Decode(hits[i])]]

\* decodeResponse, then the _source of every hit appended to an empty slice
extractDocumentsFromSearchResponse(status, hits) ==
    LET r == decodeResponse(status, EmptyDoc) IN
    IF r.err # "nil" THEN [err |-> r.err, documents |-> <<>>]
    ELSE [err |-> "nil", documents |-> [i \in 1..Len(hits) |-> Decode(hits[i])]]

\* mutant: the search goes to the secondary when there is one
SearchOnSecondary(role) ==
    \E fault \in Faults :
        LET target == IF secondaryClient THEN "secondary" ELSE role
            status == Status(fault, 200)
            c == [call EXCEPT !.log = Append(@, Request(target, "SearchRequest", status))]
        IN  IF fault = "transport" THEN call' = Return(c, Err("", "Backend"))
            ELSE \E hits \in SearchRequestHits(cluster[target], call.query) :
                   LET r == extractDocumentsFromSearchResponse(status, hits) IN
                   call' = IF r.err # "nil" THEN Return(c, Err("", r.err))
                           ELSE ReturnDocuments(c, r.documents)

\* lines 226-230: executeReadRequest on the client, whose error is returned as
\* it is, then extractDocumentsFromSearchResponse, whose error is too
SearchOn(role) ==
    \E fault \in Faults :
        LET status == Status(fault, 200)
            c == [call EXCEPT !.log = Append(@, Request(role, "SearchRequest", status))]
        IN  IF fault = "transport" THEN call' = Return(c, Err("", "Backend"))
            ELSE \E hits \in SearchRequestHits(cluster[role], call.query) :
                   LET r == extractDocumentsFromSearchResponse(status, hits) IN
                   call' = IF r.err # "nil" THEN Return(c, Err("", r.err))
                           ELSE ReturnDocuments(c, r.documents)

\* line 226: os.primaryClient, whether or not a secondary is configured
SearchPrimary ==
    /\ call.pc = "searchPrimary"
    /\ SearchOn("primary")
    /\ UNCHANGED <<cluster, pre>>
    /\ Unused

-----------------------------------------------------------------------------
(* The logging middleware: each method calls the same method of mw.next    *)

MiddlewareCreateIndex(indexName) ==
    /\ CreateIndex(indexName)
    /\ mw' = MiddlewareReturn(
                Invoke("CreateIndex", [NoArgs EXCEPT !.indexName = indexName]), call')

MiddlewareDeleteIndex(indexName) ==
    /\ DeleteIndex(indexName)
    /\ mw' = MiddlewareReturn(
                Invoke("DeleteIndex", [NoArgs EXCEPT !.indexName = indexName]), call')

MiddlewarePutDocument(instanceID, indexName, entityName, entityID, document) ==
    /\ PutDocument(instanceID, indexName, entityName, entityID, document)
    /\ mw' = MiddlewareReturn(
                Invoke("PutDocument",
                       [NoArgs EXCEPT !.instanceID = instanceID, !.indexName = indexName,
                                      !.entityName = entityName, !.entityID = entityID,
                                      !.document = document]), call')

MiddlewareFindDocument(instanceID, indexName, entityName, entityID) ==
    /\ FindDocument(instanceID, indexName, entityName, entityID)
    /\ mw' = MiddlewareReturn(
                Invoke("FindDocument",
                       [NoArgs EXCEPT !.instanceID = instanceID, !.indexName = indexName,
                                      !.entityName = entityName, !.entityID = entityID]),
                call')

MiddlewareDeleteDocument(instanceID, indexName, entityName, entityID) ==
    /\ DeleteDocument(instanceID, indexName, entityName, entityID)
    /\ mw' = MiddlewareReturn(
                Invoke("DeleteDocument",
                       [NoArgs EXCEPT !.instanceID = instanceID, !.indexName = indexName,
                                      !.entityName = entityName, !.entityID = entityID]),
                call')

MiddlewareSearch(instanceID, query) ==
    /\ Search(instanceID, query)
    /\ mw' = MiddlewareReturn(
                Invoke("Search", [NoArgs EXCEPT !.instanceID = instanceID,
                                                !.query = query]), call')

-----------------------------------------------------------------------------
(* The engine: one caller, one operation at a time                         *)

\* NewOpenSearch with or without WithSecondaryEndpoint, wrapped in the logging
\* middleware; the clusters start empty
Init ==
    /\ secondaryClient \in BOOLEAN
    /\ cluster = [r \in Roles |-> NoCluster]
    /\ call = IdleCall
    /\ pre = [r \in Roles |-> NoCluster]
    /\ mw = IdleFrame
    /\ parked = <<>>
    /\ keyArgs = <<Empty, Empty, Empty>>
    /\ keyOut = Empty

Next ==
    \/ \E t \in Triples, i \in IndexNames, d \in Documents :
           MiddlewarePutDocument(t[1], i, t[2], t[3], d)
    \/ PutPrimary
    \/ PutSecondary
    \/ \E t \in Triples, i \in IndexNames : MiddlewareFindDocument(t[1], i, t[2], t[3])
    \/ FindPrimary
    \/ FindSecondary
    \/ \E t \in Triples, i \in IndexNames : MiddlewareDeleteDocument(t[1], i, t[2], t[3])
    \/ DeletePrimary
    \/ DeleteSecondary
    \/ \E i \in IndexNames : MiddlewareDeleteIndex(i)
    \/ DeleteIndexPrimary
    \/ DeleteIndexSecondary
    \/ \E i \in IndexNames : MiddlewareCreateIndex(i)
    \/ ExistsPrimary
    \/ CreatePrimary
    \/ ExistsSecondary
    \/ CreateSecondary
    \/ \E i \in SearchInstanceIDs, q \in Queries : MiddlewareSearch(i, q)
    \/ SearchPrimary

Spec == Init /\ [][Next]_vars

-----------------------------------------------------------------------------
(* The key derivation on its own                                           *)

KeyStrings == StringsUpTo(MaxIdLen) \ {Empty}
KeyTriples == KeyStrings \X KeyStrings \X KeyStrings

InitKey ==
    /\ secondaryClient = FALSE
    /\ cluster = [r \in Roles |-> NoCluster]
    /\ call = IdleCall
    /\ pre = [r \in Roles |-> NoCluster]
    /\ mw = IdleFrame
    /\ parked = <<>>
    /\ keyArgs \in KeyTriples
    /\ keyOut = Empty

\* one call of GenerateDocumentID
DeriveKey ==
    /\ keyOut = Empty
    /\ keyOut' = GenerateDocumentID(keyArgs[1], keyArgs[2], keyArgs[3])
    /\ UNCHANGED <<secondaryClient, cluster, call, pre, mw, parked, keyArgs>>

NextKey == DeriveKey

SpecKey == InitKey /\ [][NextKey]_vars

-----------------------------------------------------------------------------
(* Several callers at once: each goroutine makes one call on the shared    *)
(* engine; the running one takes the steps above, the others are parked    *)

\* goroutines besides the running one
MaxParked == 1

IdleGoroutine ==
    [call |-> IdleCall, pre |-> [r \in Roles |-> NoCluster], mw |-> IdleFrame]

Running == [call |-> call, pre |-> pre, mw |-> mw]

Goroutines == {Running} \cup {parked[i] : i \in 1..Len(parked)}

InitConcurrent ==
    /\ secondaryClient \in BOOLEAN
    /\ cluster = [r \in Roles |-> NoCluster]
    /\ call = IdleCall
    /\ pre = [r \in Roles |-> NoCluster]
    /\ mw = IdleFrame
    /\ parked = [i \in 1..MaxParked |-> IdleGoroutine]
    /\ keyArgs = <<Empty, Empty, Empty>>
    /\ keyOut = Empty

\* the scheduler runs another goroutine; the engine has no lock, so this can
\* happen between any two backend requests
Switch(i) ==
    /\ parked' = [parked EXCEPT ![i] = Running]
    /\ call' = parked[i].call
    /\ pre' = parked[i].pre
    /\ mw' = parked[i].mw
    /\ UNCHANGED <<secondaryClient, cluster, keyArgs, keyOut>>

\* the running goroutine makes its call
GoPutDocument(document) ==
    /\ call.pc = "idle"
    /\ MiddlewarePutDocument(IdA, "ix", IdAA, IdA, document)

GoCreateIndex(indexName) ==
    /\ call.pc = "idle"
    /\ MiddlewareCreateIndex(indexName)

NextConcurrent ==
    \/ \E d \in {Doc1, Doc2} : GoPutDocument(d)
    \/ PutPrimary
    \/ PutSecondary
    \/ \E i \in IndexNames : GoCreateIndex(i)
    \/ ExistsPrimary
    \/ CreatePrimary
    \/ ExistsSecondary
    \/ CreateSecondary
    \/ \E i \in 1..Len(parked) : Switch(i)

SpecConcurrent == InitConcurrent /\ [][NextConcurrent]_vars

-----------------------------------------------------------------------------
(* Vocabulary of the properties                                            *)

Ended == call.pc \in {"done", "panic"}

Doing(op) == call.op = op /\ call.pc # "idle"

\* the status of the i-th backend request came from the cluster's state, not
\* from a transport failure or a cluster-side error
Answered(i) == Len(call.log) >= i /\ call.log[i].status \notin {0, 500}

\* the key and the body a PutDocument of the call's arguments writes
CallKey == GenerateDocumentID(call.instanceID, call.entityName, call.entityID)
CallBody ==
    Marshal(StampedDocument(call.given, call.instanceID, call.entityName,
                            call.entityID))

Holds(cl) == HasDocument(cl, call.indexName, CallKey)
Stored(cl) == cl.docs[<<call.indexName, CallKey>>]

AllGiven == call.instanceID # Empty /\ call.entityName # Empty /\ call.entityID # Empty

\* the backend request r did not go through: no response, a cluster-side
\* error, or a status the calling method turns into an error
BackendFailed(r) ==
    IF r.req \in {"GetRequest", "IndicesExistsRequest", "SearchRequest"}
    THEN r.status \in {0, 500}
    ELSE ExecuteRequestFails(r.status)

-----------------------------------------------------------------------------
(* C1 *)

\* both clusters hold a document under the key and both reads were answered
BothRead ==
    /\ secondaryClient
    /\ Doing("FindDocument") /\ Ended
    /\ Len(call.log) = 2 /\ Answered(1) /\ Answered(2)
    /\ Holds(cluster["primary"]) /\ Holds(cluster["secondary"])

\* C1: with a secondary configured, FindDocument returns a document only when
\* primary and secondary hold equal documents under the derived key, and when
\* the two stored documents differ it fails with DocumentMismatch and returns
\* no document.
C1_MismatchWheneverDifferent ==
    /\ (secondaryClient /\ Doing("FindDocument") /\ call.returned)
          => /\ Holds(cluster["primary"]) /\ Holds(cluster["secondary"])
             /\ Stored(cluster["primary"]) = Stored(cluster["secondary"])
    /\ (BothRead /\ Stored(cluster["primary"]) # Stored(cluster["secondary"]))
          => /\ call.pc = "done"
             /\ call.err = Err("", "DocumentMismatch")
             /\ ~call.returned

-----------------------------------------------------------------------------
(* C2 *)

PrimaryPutFailed ==
    /\ Doing("PutDocument")
    /\ Len(call.log) >= 1 /\ ExecuteRequestFails(call.log[1].status)

\* C2: if the primary write of PutDocument fails, PutDocument returns a
\* primary-tagged error, sends no write to the secondary, and the secondary
\* is as it was before the call.
C2_PrimaryFailureAborts ==
    PrimaryPutFailed
        => /\ call.pc = "done"
           /\ call.err = Err("primary", "Backend")
           /\ \A i \in 1..Len(call.log) : call.log[i].role # "secondary"
           /\ cluster["secondary"] = pre["secondary"]

C2_Witness ==
    /\ PrimaryPutFailed /\ secondaryClient
    /\ call.pc = "done"
    /\ Holds(pre["secondary"]) /\ Stored(pre["secondary"]) # CallBody

-----------------------------------------------------------------------------
(* C3 *)

SecondaryPutFailed ==
    /\ Doing("PutDocument")
    /\ Len(call.log) = 2 /\ ExecuteRequestFails(call.log[2].status)

\* C3: if the primary write succeeds and the secondary write fails,
\* PutDocument returns a secondary-tagged error and the primary holds the new
\* document under the derived key: a read of the primary alone finds it.
C3_SplitStateKeepsPrimary ==
    SecondaryPutFailed
        => /\ call.pc = "done"
           /\ call.err = Err("secondary", "Backend")
           /\ Holds(cluster["primary"])
           /\ Stored(cluster["primary"]) = CallBody
           /\ findDocument(cluster["primary"], "none", call.indexName, CallKey)
                = [err |-> "nil", doc |-> Decode(CallBody)]

C3_Witness ==
    /\ SecondaryPutFailed /\ call.pc = "done"
    /\ ~Holds(pre["primary"])
    /\ ~Holds(cluster["secondary"])

-----------------------------------------------------------------------------
(* C4 *)

PutSucceeded == Doing("PutDocument") /\ call.pc = "done" /\ call.err = NoErr

\* C4: when a secondary is configured and PutDocument returns no error, both
\* clusters hold the same document, the caller's fields plus id, instance_id
\* and entity_name, under the same derived key, whatever they held before.
C4_BothHoldTheDocument ==
    (secondaryClient /\ PutSucceeded)
        => /\ \A r \in Roles :
                /\ Holds(cluster[r])
                /\ Stored(cluster[r]) = CallBody
           /\ DOMAIN CallBody = DOMAIN call.given \cup MetaKeys
           /\ CallBody["id"] = MarshalValue(GoString(call.entityID))
           /\ CallBody["instance_id"] = MarshalValue(GoString(call.instanceID))
           /\ CallBody["entity_name"] = MarshalValue(GoString(call.entityName))
           /\ \A k \in DOMAIN call.given \ MetaKeys :
                CallBody[k] = MarshalValue(call.given[k])

C4_Witness ==
    /\ secondaryClient /\ PutSucceeded
    /\ Holds(pre["primary"]) /\ Holds(pre["secondary"])
    /\ Stored(pre["primary"]) # Stored(pre["secondary"])
    /\ Stored(pre["primary"]) # CallBody
    /\ Stored(pre["secondary"]) # CallBody

-----------------------------------------------------------------------------
(* C5 *)

PrimaryLacks ==
    /\ Doing("FindDocument") /\ Len(call.log) >= 1
    /\ ~HasDocument(cluster["primary"], call.indexName, call.documentID)

\* C5: when the primary has no document under the derived key, FindDocument
\* fails (with DocumentNotFound once the primary has answered), returns no
\* document, and sends no read to the secondary.
C5_PrimaryNotFound ==
    PrimaryLacks
        => /\ call.pc = "done"
           /\ ~call.returned
           /\ call.err.role = "primary"
           /\ call.err.kind \in {"DocumentNotFound", "Backend"}
           /\ Answered(1) => call.err.kind = "DocumentNotFound"
           /\ Len(call.log) = 1
           /\ call.documentID = CallKey

C5_Witness ==
    /\ PrimaryLacks /\ secondaryClient
    /\ call.err = Err("primary", "DocumentNotFound")
    /\ Holds(cluster["secondary"])

-----------------------------------------------------------------------------
(* C6 *)

\* C6: when the primary returns a document and the secondary answers
\* not-found for the same key, FindDocument fails with DocumentMismatch and
\* returns no document.
C6_SecondaryNotFoundIsMismatch ==
    (/\ secondaryClient /\ Doing("FindDocument") /\ Ended
     /\ Len(call.log) = 2
     /\ call.log[1].status = 200 /\ call.log[2].status = 404)
        => /\ call.err.kind = "DocumentMismatch"
           /\ ~call.returned

-----------------------------------------------------------------------------
(* C7 *)

\* FindDocument right after a PutDocument that returned nil, with the same
\* identifiers, on a primary alone that answers the read
RoundTrip ==
    /\ ~secondaryClient
    /\ Doing("FindDocument") /\ call.prev.ok
    /\ call.instanceID = call.prev.instanceID
    /\ call.indexName = call.prev.indexName
    /\ call.entityName = call.prev.entityName
    /\ call.entityID = call.prev.entityID
    /\ Answered(1)

\* C7 as claimed: the round trip returns exactly the input fields plus the
\* three metadata fields.
C7_RoundTripExact ==
    RoundTrip
        => /\ call.pc = "done" /\ call.err = NoErr /\ call.returned
           /\ call.result = StampedDocument(call.prev.given, call.instanceID,
                                            call.entityName, call.entityID)

\* what a scalar comes back as
ReadBack(x) ==
    CASE x.kind = "int" -> GoFloat64(x.v)
      [] x.kind = "time" -> GoString(x.v)
      [] OTHER -> x

\* C7, amended: the round trip returns a document with exactly the input's
\* field names plus id, instance_id and entity_name; the metadata fields hold
\* the identifiers; a string, boolean or float64 comes back equal, an integer
\* as the float64 of the same number, a timestamp as its string.
C7_RoundTripThroughJSON ==
    RoundTrip
        => /\ call.pc = "done" /\ call.err = NoErr /\ call.returned
           /\ DOMAIN call.result = DOMAIN call.prev.given \cup MetaKeys
           /\ call.result["id"] = GoString(call.entityID)
           /\ call.result["instance_id"] = GoString(call.instanceID)
           /\ call.result["entity_name"] = GoString(call.entityName)
           /\ \A k \in DOMAIN call.prev.given \ MetaKeys :
                call.prev.given[k].kind \in {"string", "bool", "float64", "int", "time"}
                    => call.result[k] = ReadBack(call.prev.given[k])

C7_Witness ==
    /\ RoundTrip /\ call.pc = "done"
    /\ \E k \in DOMAIN call.prev.given : call.prev.given[k].kind = "int"
    /\ \E k \in DOMAIN call.prev.given : call.prev.given[k].kind = "time"

-----------------------------------------------------------------------------
(* C8 *)

\* C8: when any of instanceID, entityName, entityID is empty, stamping fails
\* with a MissingField error that names an empty identifier and leaves the
\* document as it was; PutDocument returns it without any backend call.
C8_MissingFieldBeforeAnyCall ==
    (Doing("PutDocument") /\ ~AllGiven)
        => /\ call.pc = "done"
           /\ call.err.kind = "MissingField"
           /\ \/ call.err.field = "entityID" /\ call.entityID = Empty
              \/ call.err.field = "instanceID" /\ call.instanceID = Empty
              \/ call.err.field = "entityName" /\ call.entityName = Empty
           /\ call.document = call.given
           /\ call.log = <<>>
           /\ cluster = pre

C8_Witness ==
    /\ Doing("PutDocument")
    /\ call.entityName = Empty /\ call.instanceID # Empty /\ call.entityID # Empty
    /\ call.err = MissingField("entityName")
    /\ call.given = Doc2

-----------------------------------------------------------------------------
(* C9 *)

\* C9: on success, stamping sets id = entityID, instance_id = instanceID and
\* entity_name = entityName, over whatever the caller had there, and leaves
\* every other field unchanged.
C9_MetadataStamped ==
    (Doing("PutDocument") /\ AllGiven)
        => /\ DOMAIN call.document = DOMAIN call.given \cup MetaKeys
           /\ call.document["id"] = GoString(call.entityID)
           /\ call.document["instance_id"] = GoString(call.instanceID)
           /\ call.document["entity_name"] = GoString(call.entityName)
           /\ \A k \in DOMAIN call.given \ MetaKeys : call.document[k] = call.given[k]

C9_Witness ==
    /\ Doing("PutDocument") /\ AllGiven
    /\ "id" \in DOMAIN call.given
    /\ call.given["id"] # GoString(call.entityID)
    /\ call.document["id"] = GoString(call.entityID)

-----------------------------------------------------------------------------
(* C10 *)

\* C10: document keys do not collide: any triple of non-empty strings other
\* than the one derived from yields another key.
C10_NoCollision ==
    keyOut # Empty
        => \A t \in KeyTriples :
              t # keyArgs => GenerateDocumentID(t[1], t[2], t[3]) # keyOut

-----------------------------------------------------------------------------
(* C11 *)

\* the key the claim describes for the call's triple, written out part by part
TripleKey == call.instanceID \o <<"-">> \o call.entityName \o <<"-">> \o call.entityID

\* the call has reached the point where it addresses a document
Addressing ==
    \/ Doing("PutDocument") /\ Len(call.log) > 0
    \/ Doing("FindDocument")
    \/ Doing("DeleteDocument")

\* C11: the key is instanceID, separator, entityName, separator, entityID, a
\* function of the triple alone, and PutDocument, FindDocument and
\* DeleteDocument address that key: a request that went through wrote, read
\* or removed the document under it on the cluster it was sent to.
C11_SameKeyEveryOperation ==
    Addressing
        => /\ call.documentID = TripleKey
           /\ \A i \in 1..Len(call.log) :
                LET r == call.log[i]
                    before == HasDocument(pre[r.role], call.indexName, TripleKey)
                    after == HasDocument(cluster[r.role], call.indexName, TripleKey)
                IN  /\ (r.req = "IndexRequest" /\ r.status \in {200, 201}) => after
                    /\ (r.req = "DeleteRequest" /\ r.status = 200) => before /\ ~after
                    /\ (r.req = "DeleteRequest" /\ r.status = 404) => ~before
                    /\ (r.req = "GetRequest" /\ r.status = 200) => after
                    /\ (r.req = "GetRequest" /\ r.status = 404) => ~after

\* a document written under a triple with a separator inside a part is found
\* again by a FindDocument of the same triple
C11_Witness ==
    /\ Doing("FindDocument") /\ call.pc = "done" /\ call.err = NoErr
    /\ call.prev.ok
    /\ call.instanceID = IdAA
    /\ HasDocument(cluster["primary"], call.indexName, TripleKey)

-----------------------------------------------------------------------------
(* C12 *)

\* C12: CreateIndex stops at the first failed step and undoes nothing: when a
\* primary step fails the call ends with a primary-tagged error and the
\* secondary has not been called; when the primary steps went through and a
\* secondary step fails the call ends with a secondary-tagged error and the
\* index is still on the primary.
C12_FailFastNoCompensation ==
    Doing("CreateIndex")
        => \A i \in 1..Len(call.log) :
             LET r == call.log[i] IN
             BackendFailed(r)
                => /\ i = Len(call.log)
                   /\ call.pc = "done"
                   /\ call.err = Err(r.role, "Backend")
                   /\ r.role = "primary"
                        => /\ \A j \in 1..Len(call.log) : call.log[j].role = "primary"
                           /\ cluster["secondary"] = pre["secondary"]
                   /\ r.role = "secondary"
                        => /\ call.indexName \in cluster["primary"].indices
                           /\ pre["primary"].indices \subseteq cluster["primary"].indices

\* the primary created the index in this call and the secondary's step failed
C12_Witness ==
    /\ Doing("CreateIndex") /\ call.pc = "done"
    /\ call.err = Err("secondary", "Backend")
    /\ call.indexName \notin pre["primary"].indices
    /\ call.indexName \in cluster["primary"].indices
    /\ call.indexName \notin cluster["secondary"].indices

-----------------------------------------------------------------------------
(* C13 *)

\* the clusters the engine was built with
Configured == IF secondaryClient THEN Roles ELSE {"primary"}

\* the positions in the call's log of the requests req sent to role
Sent(role, req) ==
    {i \in 1..Len(call.log) : call.log[i].role = role /\ call.log[i].req = req}

\* every request of the call was answered from the cluster's state
AllAnswered == \A i \in 1..Len(call.log) : Answered(i)

\* C13: CreateIndex checks existence on every configured cluster in each call
\* and creates only where the index is absent: a call whose requests are all
\* answered, whatever the clusters held before (nothing, the index on both, or
\* the index on one of them only), returns no error, leaves the index on every
\* configured cluster, leaves a cluster that already had it unchanged and
\* sends the create request exactly to the clusters that lacked it.
C13_CreateOnlyWhereAbsent ==
    (Doing("CreateIndex") /\ call.pc = "done" /\ AllAnswered)
        => /\ call.err = NoErr
           /\ \A role \in Configured :
                /\ Cardinality(Sent(role, "IndicesExistsRequest")) = 1
                /\ call.indexName \in cluster[role].indices
                /\ cluster[role].docs = pre[role].docs
                /\ IF call.indexName \in pre[role].indices
                   THEN /\ cluster[role] = pre[role]
                        /\ Sent(role, "IndicesCreateRequest") = {}
                   ELSE Cardinality(Sent(role, "IndicesCreateRequest")) = 1
           /\ \A role \in Roles \ Configured :
                /\ cluster[role] = pre[role]
                /\ \A i \in 1..Len(call.log) : call.log[i].role # role

\* the call after a split: the primary had the index, the secondary did not
C13_Witness ==
    /\ Doing("CreateIndex") /\ call.pc = "done" /\ AllAnswered
    /\ secondaryClient
    /\ call.indexName \in pre["primary"].indices
    /\ call.indexName \notin pre["secondary"].indices
    /\ call.indexName \in cluster["secondary"].indices

-----------------------------------------------------------------------------
(* C14 *)

\* the target of the delete in progress is on the cluster
TargetOn(cl) ==
    IF call.op = "DeleteIndex" THEN call.indexName \in cl.indices
    ELSE HasDocument(cl, call.indexName, TripleKey)

Deleting == Doing("DeleteDocument") \/ Doing("DeleteIndex")

\* C14: DeleteDocument and DeleteIndex delete on the primary first and reach
\* the secondary only after the primary's delete succeeded. A failed primary
\* delete ends the call with a primary-tagged error and the secondary
\* untouched; a failed secondary delete ends it with a secondary-tagged error
\* and the primary's deletion in effect.
C14_DeletePrimaryFirst ==
    Deleting
        => /\ Len(call.log) <= 2
           /\ Len(call.log) >= 1 => call.log[1].role = "primary"
           /\ Len(call.log) = 2
                => /\ call.log[2].role = "secondary"
                   /\ secondaryClient
                   /\ ~BackendFailed(call.log[1])
                   /\ TargetOn(pre["primary"]) /\ ~TargetOn(cluster["primary"])
           /\ (Len(call.log) >= 1 /\ BackendFailed(call.log[1]))
                => /\ call.pc = "done"
                   /\ call.err = Err("primary", "Backend")
                   /\ Len(call.log) = 1
                   /\ cluster = pre
           /\ (Len(call.log) = 2 /\ BackendFailed(call.log[2]))
                => /\ call.pc = "done"
                   /\ call.err = Err("secondary", "Backend")
                   /\ ~TargetOn(cluster["primary"])
                   /\ cluster["secondary"] = pre["secondary"]

\* the split a failed secondary delete leaves: gone from the primary, still on
\* the secondary
C14_Witness ==
    /\ Doing("DeleteDocument") /\ call.pc = "done"
    /\ call.err = Err("secondary", "Backend")
    /\ TargetOn(pre["primary"]) /\ ~TargetOn(cluster["primary"])
    /\ TargetOn(cluster["secondary"])

-----------------------------------------------------------------------------
(* C15 *)

\* C15: a delete is idempotent under retry: when DeleteDocument or DeleteIndex
\* ended in a split (deleted on the primary, failed on the secondary), the
\* same call made again and answered by the clusters returns no error and
\* leaves the target absent from both clusters.
C15_DeleteRetryIdempotent ==
    (Deleting /\ call.retry /\ call.pc = "done" /\ AllAnswered)
        => /\ call.err = NoErr
           /\ ~TargetOn(cluster["primary"])
           /\ ~TargetOn(cluster["secondary"])

-----------------------------------------------------------------------------
(* C16 *)

\* the primary's documents that hold the searched word and carry the
\* searching tenant's instance_id
PrimaryMatches ==
    {k \in DOMAIN cluster["primary"].docs :
        LET body == cluster["primary"].docs[k] IN
        /\ QueryStringMatches(call.query.must, body)
        /\ "instance_id" \in DOMAIN body
        /\ body["instance_id"].v = call.instanceID}

\* C16: Search is executed against the primary only: it sends nothing to the
\* secondary, configured or not, changes no cluster, and what it returns is
\* settled by the primary's documents alone: exactly the primary's matching
\* documents when the primary answered, an error when it did not.
C16_SearchPrimaryOnly ==
    Doing("Search")
        => /\ Len(call.log) <= 1
           /\ \A i \in 1..Len(call.log) : call.log[i].role = "primary"
           /\ cluster = pre
           /\ (call.pc = "done" /\ AllAnswered)
                => /\ call.err = NoErr /\ call.returned
                   /\ Len(call.documents) = Cardinality(PrimaryMatches)
                   /\ {call.documents[i] : i \in 1..Len(call.documents)}
                        = {Decode(cluster["primary"].docs[k]) : k \in PrimaryMatches}
           /\ (call.pc = "done" /\ ~AllAnswered)
                => call.err # NoErr /\ ~call.returned

\* a search that returned the primary's document while the secondary, which
\* is configured, holds other documents
C16_Witness ==
    /\ Doing("Search") /\ call.pc = "done" /\ call.err = NoErr
    /\ secondaryClient
    /\ Len(call.documents) = 1
    /\ cluster["secondary"].docs # cluster["primary"].docs

-----------------------------------------------------------------------------
(* C17 *)

\* C17: every document a Search returns carries the instance_id of the
\* searching tenant, whatever the query string: a document stored under
\* another instance is never returned.
C17_TenantIsolation ==
    (Doing("Search") /\ call.pc = "done")
        => \A i \in 1..Len(call.documents) :
              /\ "instance_id" \in DOMAIN call.documents[i]
              /\ call.documents[i]["instance_id"] = GoString(call.instanceID)

\* the primary holds another tenant's document that matches the query string,
\* and the search does not return it
C17_Witness ==
    /\ Doing("Search") /\ call.pc = "done" /\ call.err = NoErr
    /\ \E k \in DOMAIN cluster["primary"].docs :
          LET body == cluster["primary"].docs[k] IN
          /\ QueryStringMatches(call.query.must, body)
          /\ body["instance_id"].v # call.instanceID
          /\ body["id"].v = call.instanceID
    /\ call.documents = <<>>

-----------------------------------------------------------------------------
(* C18 *)

\* C18: a Search that matches nothing returns an empty sequence of documents
\* (not nil) and no error; a Search never fails with DocumentNotFound.
C18_NoMatchIsEmpty ==
    Doing("Search")
        => /\ call.err.kind # "DocumentNotFound"
           /\ (call.pc = "done" /\ AllAnswered /\ PrimaryMatches = {})
                => /\ call.err = NoErr
                   /\ call.returned
                   /\ call.documents = <<>>

\* nothing matches although the primary holds documents
C18_Witness ==
    /\ Doing("Search") /\ call.pc = "done" /\ AllAnswered
    /\ PrimaryMatches = {}
    /\ DOMAIN cluster["primary"].docs # {}
    /\ call.returned /\ call.documents = <<>>

-----------------------------------------------------------------------------
(* C19 *)

\* C19: in every public operation a failed backend request is the last one of
\* the call, and the call returns an error tagged with the role of the
\* cluster the request was sent to.
C19_BackendFailureTagged ==
    \A i \in 1..Len(call.log) :
        BackendFailed(call.log[i])
            => /\ i = Len(call.log)
               /\ call.pc = "done"
               /\ call.err.kind # "nil"
               /\ call.err.role = call.log[i].role

-----------------------------------------------------------------------------
(* C20 *)

\* C20: the logging middleware passes every call through: the engine's method
\* of the same name is at work on the arguments the middleware was given, and
\* when the engine's call has ended the middleware has returned exactly the
\* engine's document, documents and error (or its panic).
C20_LoggingPassThrough ==
    /\ mw.method = call.op
    /\ mw.args.instanceID = call.instanceID
    /\ mw.args.indexName = call.indexName
    /\ mw.args.entityName = call.entityName
    /\ mw.args.entityID = call.entityID
    /\ call.op = "PutDocument" => mw.args.document = call.given
    /\ call.op = "Search" => mw.args.query = call.query.must
    /\ call.pc \notin {"idle", "done", "panic"} => mw.pc = "next"
    /\ call.pc = "panic" => mw.pc = "panic"
    /\ call.pc = "done"
         => /\ mw.pc = "returned"
            /\ mw.err = call.err
            /\ mw.returned = call.returned
            /\ mw.result = call.result
            /\ mw.documents = call.documents

\* an error of the engine's second backend request came out of the middleware
C20_Witness ==
    /\ mw.method = "FindDocument" /\ mw.pc = "returned"
    /\ Len(call.log) = 2
    /\ mw.err = Err("", "DocumentMismatch")

-----------------------------------------------------------------------------
(* C21 *)

\* C21: the consistency check decides equality for every pair of stored
\* documents: when both clusters answered a FindDocument with a document, the
\* call returns normally, with that document and no error exactly when the
\* two stored documents are equal (lists and nested objects included), and
\* with DocumentMismatch otherwise.
C21_CompareDecidesEquality ==
    BothRead
        => /\ call.pc = "done"
           /\ IF Stored(cluster["primary"]) = Stored(cluster["secondary"])
              THEN /\ call.err = NoErr
                   /\ call.returned
                   /\ call.result = Decode(Stored(cluster["primary"]))
              ELSE /\ call.err = Err("", "DocumentMismatch")
                   /\ ~call.returned

-----------------------------------------------------------------------------
(* C22 *)

\* the request r went through and let its caller carry on
Succeeded(r) ==
    IF r.req = "IndicesExistsRequest" THEN r.status \in {200, 404}
    ELSE r.status \in {200, 201}

\* C22: every public operation is one sequential pass: its requests go to the
\* primary first and to the secondary only after every primary request
\* succeeded, a request that did not succeed is the last one and ends the
\* call, no request is sent twice to the same cluster, and each configured
\* cluster gets at most one existence check and one mutation or read.
C22_SingleSequentialPass ==
    LET L == call.log IN
    /\ \A i \in 1..Len(L) : L[i].role \in Configured
    /\ \A i, j \in 1..Len(L) :
          i < j => /\ L[i].role = "secondary" => L[j].role = "secondary"
                   /\ Succeeded(L[i])
                   /\ ~(L[i].role = L[j].role /\ L[i].req = L[j].req)
    /\ \A i \in 1..Len(L) : ~Succeeded(L[i]) => Ended
    /\ \A role \in Roles :
          /\ Cardinality(Sent(role, "IndicesExistsRequest")) <= 1
          /\ Cardinality({i \in 1..Len(L) :
                 L[i].role = role /\ L[i].req # "IndicesExistsRequest"}) <= 1

\* the longest pass: CreateIndex checked and created on both clusters
C22_Witness ==
    /\ Doing("CreateIndex") /\ call.pc = "done" /\ call.err = NoErr
    /\ Len(call.log) = 4
    /\ call.log[2].req = "IndicesCreateRequest" /\ call.log[2].role = "primary"
    /\ call.log[3].req = "IndicesExistsRequest" /\ call.log[3].role = "secondary"

-----------------------------------------------------------------------------
(* C23 *)

\* C23: a split is never reported as success: when CreateIndex, DeleteIndex or
\* DeleteDocument returns no error, the index is present, the index is absent
\* or the document is absent on every configured cluster.
C23_SuccessMeansEveryCluster ==
    (call.pc = "done" /\ call.err = NoErr)
        => \A role \in Configured :
              /\ Doing("CreateIndex") => call.indexName \in cluster[role].indices
              /\ Doing("DeleteIndex") => call.indexName \notin cluster[role].indices
              /\ Doing("DeleteDocument")
                    => ~HasDocument(cluster[role], call.indexName, TripleKey)

\* a DeleteIndex that returned no error with the index on both clusters before
C23_Witness ==
    /\ Doing("DeleteIndex") /\ call.pc = "done" /\ call.err = NoErr
    /\ secondaryClient
    /\ call.indexName \in pre["primary"].indices
    /\ call.indexName \in pre["secondary"].indices
    /\ DOMAIN pre["secondary"].docs # {}

-----------------------------------------------------------------------------
(* C24 *)

\* C24: FindDocument and Search are read-only: from their first step to every
\* outcome, DocumentMismatch and a secondary not-found included, both clusters
\* hold the indices and documents they held when the call began, so a
\* divergence the call detected is still there when it has returned.
C24_ReadsChangeNothing ==
    (Doing("FindDocument") \/ Doing("Search")) => cluster = pre

\* a FindDocument that reported the mismatch of two differing documents, which
\* both clusters still hold
C24_Witness ==
    /\ BothRead /\ call.pc = "done"
    /\ call.err = Err("", "DocumentMismatch")
    /\ Stored(cluster["primary"]) # Stored(cluster["secondary"])
    /\ Stored(cluster["secondary"]) = Stored(pre["secondary"])

-----------------------------------------------------------------------------
(* C25 *)

Writing ==
    \/ Doing("CreateIndex") \/ Doing("DeleteIndex")
    \/ Doing("PutDocument") \/ Doing("DeleteDocument")

\* C25: replica agreement is kept by every write that meets no failure: when
\* the two clusters held the same indices and documents as the call began and
\* every backend request of the call succeeded, the two clusters hold the same
\* indices and the same document under every key when the call has returned.
C25_ReplicaAgreement ==
    (/\ secondaryClient
     /\ Writing /\ call.pc = "done"
     /\ pre["primary"] = pre["secondary"]
     /\ \A i \in 1..Len(call.log) : Succeeded(call.log[i]))
        => cluster["primary"] = cluster["secondary"]

\* a PutDocument that replaced the document both clusters held
C25_Witness ==
    /\ secondaryClient
    /\ Doing("PutDocument") /\ call.pc = "done" /\ call.err = NoErr
    /\ pre["primary"] = pre["secondary"]
    /\ DOMAIN pre["primary"].docs # {}
    /\ cluster["primary"] # pre["primary"]
    /\ cluster["primary"] = cluster["secondary"]

-----------------------------------------------------------------------------
(* C28 *)

\* the triple a stored document was written for, as stamped into it
StoredTriple(body) == <<body["instance_id"].v, body["entity_name"].v, body["id"].v>>

\* C28: a PutDocument or DeleteDocument for a triple of non-empty identifiers
\* changes at most the document stored for that triple: every document either
\* cluster held for another triple when the call began is still there,
\* unchanged.
C28_WritesStayInTriple ==
    ((Doing("PutDocument") \/ Doing("DeleteDocument")) /\ AllGiven)
        => \A role \in Roles : \A k \in DOMAIN pre[role].docs :
              StoredTriple(pre[role].docs[k])
                    # <<call.instanceID, call.entityName, call.entityID>>
                 => /\ k \in DOMAIN cluster[role].docs
                    /\ cluster[role].docs[k] = pre[role].docs[k]

-----------------------------------------------------------------------------
(* C26 *)

\* C26: with a secondary configured, once concurrent PutDocument calls on one
\* key have all returned without error, primary and secondary hold equal
\* documents under that key, whatever the interleaving of their writes.
C26_ConcurrentPutsConverge ==
    (/\ secondaryClient
     /\ \A g \in Goroutines :
           /\ g.call.op = "PutDocument" /\ g.call.pc = "done"
           /\ g.call.err = NoErr)
        => /\ Holds(cluster["primary"]) /\ Holds(cluster["secondary"])
           /\ Stored(cluster["primary"]) = Stored(cluster["secondary"])

-----------------------------------------------------------------------------
(* C27 *)

\* C27: CreateIndex calls for one index name that was absent when each of them
\* began, run concurrently against clusters that answer every request, all
\* return no error and leave the index on every configured cluster.
C27_ConcurrentCreateIndex ==
    (\A g \in Goroutines :
        /\ g.call.op = "CreateIndex" /\ g.call.pc = "done"
        /\ g.call.indexName \notin g.pre["primary"].indices
        /\ g.call.indexName \notin g.pre["secondary"].indices
        /\ \A i \in 1..Len(g.call.log) : g.call.log[i].status \notin {0, 500})
        => \A g \in Goroutines :
              /\ g.call.err = NoErr
              /\ \A role \in Configured : g.call.indexName \in cluster[role].indices

====
